---- MODULE Spec2Model ----
(***************************************************************************)
(* BM25 index of src/main.rs: construction (BM25::new, calculate_idf),     *)
(* scoring (calculate_bm25_score) and ranking (rank_documents).            *)
(*                                                                         *)
(* Scores are Rust f32 values.  They are modelled as IEEE 754 binary32     *)
(* values with round-to-nearest-even arithmetic, so that rounding, signed  *)
(* zeros, infinities and NaN behave as in the program.                     *)
(***************************************************************************)
EXTENDS Integers, Naturals, Sequences, FiniteSets, TLC

(***************************************************************************)
(* f32: a value is a record [c, s, e, m]:                                  *)
(*   c = "fin"  : (-1)^s * m * 2^e, 0 < m < 2^24, e >= EMin; m >= 2^23     *)
(*                unless e = EMin (subnormal)                              *)
(*   c = "zero" : signed zero;  c = "inf" : signed infinity;  c = "nan"    *)
(***************************************************************************)
MantBits == 24
EMin == -149
EMax == 104

Pow2(n) == 2 ^ n

MaxOf(x, y) == IF x >= y THEN x ELSE y

RECURSIVE BitLen(_)
BitLen(m) ==
    IF m >= 65536 THEN 16 + BitLen(m \div 65536)
    ELSE IF m >= 256 THEN 8 + BitLen(m \div 256)
    ELSE IF m >= 16 THEN 4 + BitLen(m \div 16)
    ELSE IF m >= 4 THEN 2 + BitLen(m \div 4)
    ELSE IF m >= 2 THEN 2 ELSE m

NaN == [c |-> "nan", s |-> 0, e |-> 0, m |-> 0]
Inf(s) == [c |-> "inf", s |-> s, e |-> 0, m |-> 0]
Zero(s) == [c |-> "zero", s |-> s, e |-> 0, m |-> 0]
Fin(s, m, e) == [c |-> "fin", s |-> s, e |-> e, m |-> m]

IsNaN(x) == x.c = "nan"
Xor(s, t) == (s + t) % 2

\* Round (-1)^s * (m + sticky fraction) * 2^e, 0 < m < 2^31, to the nearest
\* f32, ties to even.  sticky says that bits below m's lowest bit were lost.
RoundUp(s, q1, e) ==
    IF q1 = 0 THEN Zero(s)
    ELSE IF q1 = Pow2(MantBits)
    THEN (IF e + 1 > EMax THEN Inf(s) ELSE Fin(s, Pow2(MantBits - 1), e + 1))
    ELSE IF e > EMax THEN Inf(s)
    ELSE Fin(s, q1, e)

RoundAt(s, q, r, half, e, sticky) ==
    IF r > half \/ (r = half /\ (sticky \/ q % 2 = 1))
    THEN RoundUp(s, q + 1, e)
    ELSE RoundUp(s, q, e)

RoundShift(s, m, e, sticky, shift) ==
    IF shift <= 0
    THEN Fin(s, m * Pow2(-shift), e + shift)
    ELSE IF shift > 30
    THEN Zero(s)
    ELSE RoundAt(s, m \div Pow2(shift), m % Pow2(shift), Pow2(shift - 1),
                 e + shift, sticky)

RoundF32(s, m, e, sticky) ==
    RoundShift(s, m, e, sticky, MaxOf(BitLen(m) - MantBits, EMin - e))

\* `n as f32` for an i32 n with |n| < 2^24 (exact).
as_f32(n) ==
    IF n = 0 THEN Zero(0)
    ELSE IF n > 0 THEN RoundF32(0, n, 0, FALSE)
    ELSE RoundF32(1, -n, 0, FALSE)

\* The literals of the program.
F32_0_0 == Zero(0)
F32_0_5 == Fin(0, Pow2(23), -24)
F32_1_0 == Fin(0, Pow2(23), -23)
F32_1_5 == Fin(0, 3 * Pow2(22), -23)
F32_0_75 == Fin(0, 3 * Pow2(22), -24)

\* The sum of two aligned finite values: hi8 = 8 * hi.m signed, los = lo's
\* mantissa with three guard bits at hi's exponent, the lowest one sticky.
AddAligned(v, e) ==
    IF v = 0 THEN Zero(0)
    ELSE IF v > 0 THEN RoundF32(0, v, e, FALSE)
    ELSE RoundF32(1, -v, e, FALSE)

AddShifted(hi, ls, lo8, p) ==
    AddAligned((IF hi.s = 1 THEN -(hi.m * 8) ELSE hi.m * 8)
               + (IF ls = 1 THEN -1 ELSE 1)
                 * ((lo8 \div p) +
                    (IF lo8 % p # 0 /\ (lo8 \div p) % 2 = 0 THEN 1 ELSE 0)),
               hi.e - 3)

AddFin(hi, lo) ==
    IF hi.e - lo.e > 27
    THEN AddAligned((IF hi.s = 1 THEN -(hi.m * 8) ELSE hi.m * 8)
                    + (IF lo.s = 1 THEN -1 ELSE 1), hi.e - 3)
    ELSE AddShifted(hi, lo.s, lo.m * 8, Pow2(hi.e - lo.e))

f32_add(x, y) ==
    IF IsNaN(x) \/ IsNaN(y) THEN NaN
    ELSE IF x.c = "inf" THEN (IF y.c = "inf" /\ y.s # x.s THEN NaN ELSE x)
    ELSE IF y.c = "inf" THEN y
    ELSE IF x.c = "zero" /\ y.c = "zero" THEN (IF x.s = y.s THEN x ELSE Zero(0))
    ELSE IF x.c = "zero" THEN y
    ELSE IF y.c = "zero" THEN x
    ELSE IF x.e >= y.e THEN AddFin(x, y) ELSE AddFin(y, x)

f32_neg(x) == IF IsNaN(x) THEN x ELSE [x EXCEPT !.s = 1 - x.s]

f32_sub(x, y) == f32_add(x, f32_neg(y))

\* m * 2^e shifted left until m has 24 bits (the exponent may pass EMin).
NormShift(x, k) == [x EXCEPT !.m = x.m * Pow2(k), !.e = x.e - k]

NormUp(x) == IF x.m >= Pow2(MantBits - 1) THEN x
             ELSE NormShift(x, MantBits - BitLen(x.m))

\* The 48-bit product of two 24-bit mantissas, from 12-bit halves: hi * 2^24
\* + lo, cut to 30 bits with the lost bits sticky.
MulRound(s, hi, lo, e) ==
    RoundF32(s, hi * Pow2(6) + lo \div Pow2(18), e + 18, lo % Pow2(18) # 0)

MulCarry(s, hh, cross, low, e) ==
    MulRound(s, hh + cross \div Pow2(12) + low \div Pow2(24), low % Pow2(24), e)

MulHalves(s, ah, al, bh, bl, e) ==
    MulCarry(s, ah * bh, ah * bl + al * bh,
             al * bl + ((ah * bl + al * bh) % Pow2(12)) * Pow2(12), e)

MulFin(s, a, b) ==
    MulHalves(s, a.m \div Pow2(12), a.m % Pow2(12),
              b.m \div Pow2(12), b.m % Pow2(12), a.e + b.e)

f32_mul(x, y) ==
    IF IsNaN(x) \/ IsNaN(y) THEN NaN
    ELSE IF x.c = "inf" \/ y.c = "inf"
    THEN (IF x.c = "zero" \/ y.c = "zero" THEN NaN ELSE Inf(Xor(x.s, y.s)))
    ELSE IF x.c = "zero" \/ y.c = "zero" THEN Zero(Xor(x.s, y.s))
    ELSE MulFin(Xor(x.s, y.s), NormUp(x), NormUp(y))

\* Long division of 24-bit mantissas, 7 quotient bits a step: after k steps
\* q = floor(a.m * 2^(7k) / bm) and r is the remainder.
RECURSIVE DivSteps(_, _, _, _, _, _)
DivSteps(s, e, bm, q, r, k) ==
    IF k = 0 THEN RoundF32(s, q, e, r # 0)
    ELSE DivSteps(s, e, bm, q * Pow2(7) + (r * Pow2(7)) \div bm,
                  (r * Pow2(7)) % bm, k - 1)

DivFin(s, a, b) ==
    DivSteps(s, a.e - b.e - 28, b.m, a.m \div b.m, a.m % b.m, 4)

f32_div(x, y) ==
    IF IsNaN(x) \/ IsNaN(y) THEN NaN
    ELSE IF x.c = "inf" THEN (IF y.c = "inf" THEN NaN ELSE Inf(Xor(x.s, y.s)))
    ELSE IF y.c = "inf" THEN Zero(Xor(x.s, y.s))
    ELSE IF y.c = "zero" THEN (IF x.c = "zero" THEN NaN ELSE Inf(Xor(x.s, y.s)))
    ELSE IF x.c = "zero" THEN Zero(Xor(x.s, y.s))
    ELSE DivFin(Xor(x.s, y.s), NormUp(x), NormUp(y))

\* a.partial_cmp(&b): "Less", "Equal", "Greater", or "None" when either is NaN.
\* A value is ordered by its key <<sign, exponent, mantissa>>.
CmpKey(z) ==
    IF z.c = "zero" THEN <<0, 0, 0>>
    ELSE IF z.c = "inf" THEN <<IF z.s = 1 THEN -1 ELSE 1, EMax + 1, 0>>
    ELSE <<IF z.s = 1 THEN -1 ELSE 1, z.e, z.m>>

CmpKeys(kx, ky) ==
    IF kx = ky THEN "Equal"
    ELSE IF \/ kx[1] < ky[1]
            \/ kx[1] = ky[1] /\ kx[1] = 1
               /\ (kx[2] < ky[2] \/ (kx[2] = ky[2] /\ kx[3] < ky[3]))
            \/ kx[1] = ky[1] /\ kx[1] = -1
               /\ (kx[2] > ky[2] \/ (kx[2] = ky[2] /\ kx[3] > ky[3]))
    THEN "Less"
    ELSE "Greater"

partial_cmp(x, y) ==
    IF IsNaN(x) \/ IsNaN(y) THEN "None" ELSE CmpKeys(CmpKey(x), CmpKey(y))

\* x.ln() of the platform's logf, tabulated on the arguments
\* (N - df + 0.5) / (df + 0.5) that occur for 1 <= df <= N <= 6; the general
\* cases are those of IEEE 754 (ln of a negative number is NaN).
ln(x) ==
    IF IsNaN(x) THEN NaN
    ELSE IF x.c = "zero" THEN Inf(1)
    ELSE IF x.s = 1 THEN NaN
    ELSE IF x.c = "inf" THEN Inf(0)
    ELSE
    CASE x = Fin(0, 11184811, -25) -> Fin(1, 9215828, -23)  \* N=1 df=1, N=5 df=4
      [] x = Fin(0, 8388608, -23) -> Zero(0)  \* N=2 df=1, N=4 df=2, N=6 df=3
      [] x = Fin(0, 13421773, -26) -> Fin(1, 13500944, -23)  \* N=2 df=2
      [] x = Fin(0, 13981013, -23) -> Fin(0, 8570231, -24)  \* N=3 df=1
      [] x = Fin(0, 10066330, -24) -> Fin(1, 8570231, -24)  \* N=3 df=2
      [] x = Fin(0, 9586981, -26) -> Fin(1, 16323477, -23)  \* N=3 df=3
      [] x = Fin(0, 9786709, -22) -> Fin(0, 14215299, -24)  \* N=4 df=1
      [] x = Fin(0, 14380471, -25) -> Fin(1, 14215299, -24)  \* N=4 df=3
      [] x = Fin(0, 14913081, -27) -> Fin(1, 9215828, -22)  \* N=4 df=4
      [] x = Fin(0, 12582912, -22) -> Fin(0, 9215828, -23)  \* N=5 df=1
      [] x = Fin(0, 11744051, -23) -> Fin(0, 11290134, -25)  \* N=5 df=2
      [] x = Fin(0, 11983726, -24) -> Fin(1, 11290134, -25)  \* N=5 df=3
      [] x = Fin(0, 12201612, -27) -> Fin(1, 10057502, -22)  \* N=5 df=5
      [] x = Fin(0, 15379115, -22) -> Fin(0, 10899176, -23)  \* N=6 df=1
      [] x = Fin(0, 15099494, -23) -> Fin(0, 9861423, -24)  \* N=6 df=2
      [] x = Fin(0, 9320676, -24) -> Fin(1, 9861423, -24)  \* N=6 df=4
      [] x = Fin(0, 9151209, -25) -> Fin(1, 10899175, -23)  \* N=6 df=5
      [] x = Fin(0, 10324441, -27) -> Fin(1, 10758177, -22)  \* N=6 df=6

(***************************************************************************)
(* Inputs.  Documents and queries are sequences of tokens.                 *)
(***************************************************************************)
MaxDocs == 2
MaxDocLen == 2
MaxQueryLen == 1

Terms == {"a", "b"}
QueryTerms == Terms \cup {"x"}

SeqsUpTo(S, n) == UNION {[1..k -> S] : k \in 0..n}

Range(f) == {f[i] : i \in DOMAIN f}

VARIABLES
    pc,       \* "start": before BM25::new; "new_panicked": it panicked;
              \* "ready": index built, at the top of main's loop;
              \* "ranked": rank_documents has returned; "rank_panicked": it
              \* panicked; "scored": calculate_bm25_score has returned
    corpus,   \* the caller's Vec<Vec<String>>
    bm25,     \* the BM25 struct
    query,    \* the argument of the rank_documents call
    ranks,    \* the Vec<(i32, f32)> that rank_documents returned
    score_args, \* calculate_bm25_score called on its own: two queries and a
                \* document index
    score_out   \* the scores it returned for q1, q2 and q1 ++ q2

vars == <<pc, corpus, bm25, query, ranks, score_args, score_out>>

NoArgs == [q1 |-> <<>>, q2 |-> <<>>, doc_index |-> 0]

\* The struct's fields before BM25::new has run.
NoIndex ==
    [corpus |-> <<>>, k1 |-> F32_0_0, b |-> F32_0_0, doc_lengths |-> <<>>,
     avg_doc_length |-> 0, doc_count |-> 0, tf_cache |-> <<>>,
     term_idf |-> <<>>]

\* HashMap::get(key).unwrap_or(&default), Vec::get(i).unwrap_or(&default).
GetOr(map, key, default) == IF key \in DOMAIN map THEN map[key] ELSE default

(***************************************************************************)
(* Counter<T>                                                              *)
(***************************************************************************)
\* Counter::increment: entry(item).or_insert(0), then += 1.
increment(counts, item) ==
    LET inserted == IF item \in DOMAIN counts THEN counts
                    ELSE [t \in DOMAIN counts \cup {item} |->
                            IF t = item THEN 0 ELSE counts[t]]
    IN  [inserted EXCEPT ![item] = @ + 1]

\* doc.iter().for_each(|word| doc_counter.increment(word.clone())), from the
\* i-th word on; then get_counts().to_owned().
RECURSIVE CountFrom(_, _, _)
CountFrom(doc, i, counts) ==
    IF i > Len(doc) THEN counts
    ELSE CountFrom(doc, i + 1, increment(counts, doc[i]))

get_counts(doc) == CountFrom(doc, 1, <<>>)

(***************************************************************************)
(* BM25::calculate_idf                                                     *)
(***************************************************************************)
\* A pass that counts every occurrence of a term in the document.
DocFreqAdd_occurrences(doc_freq, doc) ==
    LET counts == get_counts(doc)
    IN  [t \in DOMAIN doc_freq \cup DOMAIN counts |->
            GetOr(doc_freq, t, 0) + GetOr(counts, t, 0)]

\* One pass of the outer loop: every term of the document's HashSet adds one
\* to its doc_freq entry.
DocFreqAdd(doc_freq, doc) ==
    LET unique_terms == Range(doc)
    IN  [t \in DOMAIN doc_freq \cup unique_terms |->
            (IF t \in DOMAIN doc_freq THEN doc_freq[t] ELSE 0)
            + (IF t \in unique_terms THEN 1 ELSE 0)]

RECURSIVE DocFreqFrom(_, _, _)
DocFreqFrom(docs, i, doc_freq) ==
    IF i > Len(docs) THEN doc_freq
    ELSE DocFreqFrom(docs, i + 1, DocFreqAdd(doc_freq, docs[i]))

\* The ratio turned upside down.
idf_of_inverted(doc_count, count) ==
    ln(f32_div(f32_add(as_f32(count), F32_0_5),
               f32_add(f32_sub(as_f32(doc_count), as_f32(count)), F32_0_5)))

\* ((doc_count as f32 - count as f32 + 0.5) / (count as f32 + 0.5)).ln()
idf_of(doc_count, count) ==
    ln(f32_div(f32_add(f32_sub(as_f32(doc_count), as_f32(count)), F32_0_5),
               f32_add(as_f32(count), F32_0_5)))

calculate_idf(self) ==
    LET doc_freq == DocFreqFrom(self.corpus, 1, <<>>)
    IN  [self EXCEPT !.term_idf =
            [t \in DOMAIN doc_freq |-> idf_of(self.doc_count, doc_freq[t])]]

(***************************************************************************)
(* BM25::new                                                               *)
(***************************************************************************)
RECURSIVE SumFrom(_, _)
SumFrom(lens, i) == IF i > Len(lens) THEN 0 ELSE lens[i] + SumFrom(lens, i + 1)

\* total_doc_length / doc_count panics when doc_count is 0.
NewPanics(c) == Len(c) = 0

\* A division that rounds up.
AvgDocLength_ceil(total_doc_length, doc_count) ==
    (total_doc_length + doc_count - 1) \div doc_count

\* i32 division of non-negative operands.
AvgDocLength(total_doc_length, doc_count) == total_doc_length \div doc_count

new(c) ==
    LET doc_count == Len(c)
        doc_lengths == [i \in 1..Len(c) |-> Len(c[i])]
        total_doc_length == SumFrom(doc_lengths, 1)
    IN  calculate_idf(
            [corpus |-> c, k1 |-> F32_1_5, b |-> F32_0_75,
             doc_lengths |-> doc_lengths,
             avg_doc_length |-> AvgDocLength(total_doc_length, doc_count),
             doc_count |-> doc_count,
             tf_cache |-> [i \in 1..Len(c) |-> get_counts(c[i])],
             term_idf |-> <<>>])

(***************************************************************************)
(* BM25::calculate_bm25_score.  doc_index is the program's index, from 0.  *)
(***************************************************************************)
\* What one pass of the loop adds to score, for one query term:
\* idf * (numerator / denominator).
TermScoreOf(self, tf, idf, doc_length) ==
    f32_mul(idf,
        f32_div(f32_mul(as_f32(tf), f32_add(self.k1, F32_1_0)),
                f32_add(as_f32(tf),
                    f32_mul(self.k1,
                        f32_add(f32_sub(F32_1_0, self.b),
                            f32_mul(self.b,
                                f32_div(as_f32(doc_length),
                                        as_f32(self.avg_doc_length))))))))

TermScore(self, term, doc_index) ==
    TermScoreOf(self, GetOr(self.tf_cache[doc_index + 1], term, 0),
                GetOr(self.term_idf, term, F32_0_0),
                GetOr(self.doc_lengths, doc_index + 1, 0))

\* A loop that skips a query term it has already met.
RECURSIVE ScoreFrom_dedup(_, _, _, _, _)
ScoreFrom_dedup(self, q, doc_index, i, score) ==
    IF i > Len(q) THEN score
    ELSE IF q[i] \in {q[j] : j \in 1..(i - 1)}
    THEN ScoreFrom_dedup(self, q, doc_index, i + 1, score)
    ELSE ScoreFrom_dedup(self, q, doc_index, i + 1,
                         f32_add(score, TermScore(self, q[i], doc_index)))

\* for term in query { score += ... }, from the i-th term on.
RECURSIVE ScoreFrom(_, _, _, _, _)
ScoreFrom(self, q, doc_index, i, score) ==
    IF i > Len(q) THEN score
    ELSE ScoreFrom(self, q, doc_index, i + 1,
                   f32_add(score, TermScore(self, q[i], doc_index)))

calculate_bm25_score(self, q, doc_index) ==
    IF doc_index + 1 \in DOMAIN self.tf_cache
    THEN ScoreFrom(self, q, doc_index, 1, F32_0_0)
    ELSE F32_0_0

(***************************************************************************)
(* BM25::rank_documents                                                    *)
(***************************************************************************)
\* A comparator that orders by ascending score.
Compare_ascending(a, b) == partial_cmp(a[2], b[2])

\* The comparator of sort_by: b.1.partial_cmp(&a.1), unwrapped by the caller.
Compare(a, b) == partial_cmp(b[2], a[2])

\* Vec::sort_by is a stable sort; it is modelled as an insertion sort: x is
\* moved left past every element it compares Less than.  A comparison that
\* yields None makes unwrap() panic.  The result is [panic, v]: whether a
\* comparison panicked, and the sorted vector when none did.
Panicked == [panic |-> TRUE, v |-> <<>>]

RECURSIVE InsertAt(_, _, _)
InsertAt(v, x, k) ==
    IF k = 0 THEN [panic |-> FALSE, v |-> <<x>> \o v]
    ELSE LET ord == Compare(x, v[k])
         IN  IF ord = "None" THEN Panicked
             ELSE IF ord = "Less" THEN InsertAt(v, x, k - 1)
             ELSE [panic |-> FALSE,
                   v |-> SubSeq(v, 1, k) \o <<x>> \o SubSeq(v, k + 1, Len(v))]

RECURSIVE SortFrom(_, _, _)
SortFrom(v, i, sorted) ==
    IF sorted.panic \/ i > Len(v) THEN sorted
    ELSE SortFrom(v, i + 1, InsertAt(sorted.v, v[i], Len(sorted.v)))

sort_by(v) == SortFrom(v, 1, [panic |-> FALSE, v |-> <<>>])

\* The ranks vector before it is sorted: (i, score of i) for i in 0..doc_count.
Pushed(self, q) ==
    [j \in 1..self.doc_count |-> <<j - 1, calculate_bm25_score(self, q, j - 1)>>]

rank_documents(self, q) == sort_by(Pushed(self, q))

\* A lookup that inserts the default for a missing query term
\* (entry(term).or_insert(0.0)).
AfterRank_inserts(self, q) ==
    [self EXCEPT !.term_idf =
        [t \in DOMAIN self.term_idf \cup Range(q) |->
            GetOr(self.term_idf, t, F32_0_0)]]

\* rank_documents and calculate_bm25_score take &self: no field is written.
AfterRank(self, q) == self

(***************************************************************************)
(* The program: the caller builds the index once, then ranks queries.      *)
(***************************************************************************)
Corpora == SeqsUpTo(SeqsUpTo(Terms, MaxDocLen), MaxDocs)
Queries == SeqsUpTo(QueryTerms, MaxQueryLen)

Init ==
    /\ pc = "start"
    /\ corpus \in Corpora
    /\ bm25 = NoIndex
    /\ query = <<>>
    /\ ranks = <<>>
    /\ score_args = NoArgs
    /\ score_out = <<>>

\* main: let ins = BM25::new(&my).
New ==
    /\ pc = "start"
    /\ IF NewPanics(corpus)
       THEN pc' = "new_panicked" /\ bm25' = bm25
       ELSE pc' = "ready" /\ bm25' = new(corpus)
    /\ UNCHANGED <<corpus, query, ranks, score_args, score_out>>

\* main's loop: let ranks = ins.rank_documents(query).
Rank(q) ==
    /\ pc = "ready"
    /\ query' = q
    /\ LET r == rank_documents(bm25, q)
       IN  IF r.panic
           THEN pc' = "rank_panicked" /\ ranks' = <<>>
           ELSE pc' = "ranked" /\ ranks' = r.v
    /\ bm25' = AfterRank(bm25, q)
    /\ UNCHANGED <<corpus, score_args, score_out>>

\* The end of the loop body: query and ranks are dropped, the index is kept.
NextQuery ==
    /\ pc = "ranked"
    /\ pc' = "ready"
    /\ query' = <<>>
    /\ ranks' = <<>>
    /\ UNCHANGED <<corpus, bm25, score_args, score_out>>

Next ==
    \/ New
    \/ \E q \in Queries : Rank(q)
    \/ NextQuery

Spec == Init /\ [][Next]_vars

(***************************************************************************)
(* The scenario of the specification: three documents, k1 = 1.5, b = 0.75. *)
(***************************************************************************)
MaxScenarioQueryLen == 3

ScenarioCorpus ==
    << <<"the", "cat", "sat">>, <<"the", "dog", "ran">>, <<"cat", "and", "dog">> >>

ScenarioTerms == {"the", "cat", "sat", "dog", "ran", "and"}

ScenarioQueries == SeqsUpTo(ScenarioTerms, MaxScenarioQueryLen)

InitScenario ==
    /\ pc = "start"
    /\ corpus = ScenarioCorpus
    /\ bm25 = NoIndex
    /\ query = <<>>
    /\ ranks = <<>>
    /\ score_args = NoArgs
    /\ score_out = <<>>

NextScenario ==
    \/ New
    \/ \E q \in ScenarioQueries : Rank(q)
    \/ NextQuery

SpecScenario == InitScenario /\ [][NextScenario]_vars

(***************************************************************************)
(* calculate_bm25_score on its own: the index is built, then the score of  *)
(* one document is computed for q1, for q2 and for q1 ++ q2.  A score      *)
(* depends on a document only through its token counts, so each document  *)
(* is drawn with its tokens in sorted order.                               *)
(***************************************************************************)
MaxScoreDocs == 1
MaxScoreDocLen == 3
MaxQ1Len == 1
MaxQ2Len == 2

SortedDocs ==
    {d \in SeqsUpTo(Terms, MaxScoreDocLen) :
        \A i \in 1..(Len(d) - 1) : d[i] = "a" \/ d[i + 1] = "b"}

ScoreCorpora == SeqsUpTo(SortedDocs, MaxScoreDocs)

InitScore ==
    /\ pc = "start"
    /\ corpus \in ScoreCorpora
    /\ bm25 = NoIndex
    /\ query = <<>>
    /\ ranks = <<>>
    /\ score_args = NoArgs
    /\ score_out = <<>>

Score(q1, q2, doc_index) ==
    /\ pc = "ready"
    /\ pc' = "scored"
    /\ score_args' = [q1 |-> q1, q2 |-> q2, doc_index |-> doc_index]
    /\ score_out' = << calculate_bm25_score(bm25, q1, doc_index),
                       calculate_bm25_score(bm25, q2, doc_index),
                       calculate_bm25_score(bm25, q1 \o q2, doc_index) >>
    /\ UNCHANGED <<corpus, bm25, query, ranks>>

NextScore ==
    \/ New
    \/ \E q1 \in SeqsUpTo(Terms, MaxQ1Len), q2 \in SeqsUpTo(Terms, MaxQ2Len),
          d \in 0..(MaxScoreDocs - 1) :
            d < bm25.doc_count /\ Score(q1, q2, d)

SpecScore == InitScore /\ [][NextScore]_vars

(***************************************************************************)
(* Properties                                                              *)
(***************************************************************************)
Built == pc \in {"ready", "ranked", "rank_panicked", "scored"}

N == Len(corpus)

\* The document indices of ranks, in order.
Indices == [k \in 1..Len(ranks) |-> ranks[k][1]]

Identity(n) == [k \in 1..n |-> k - 1]

\* The position of document i in ranks.
Pos(i) == CHOOSE k \in 1..Len(ranks) : ranks[k][1] = i

ScoreIn(i) == ranks[Pos(i)][2]

IsZero(x) == x.c = "zero"

IsNegative(x) == x.c \in {"fin", "inf"} /\ x.s = 1

Tokens == UNION {Range(corpus[i]) : i \in 1..N}

\* The number of documents that hold term t at least once.
DF(t) == Cardinality({i \in 1..N : t \in Range(corpus[i])})

\* The number of occurrences of term t in document i (from 1).
Occurrences(t, i) == Cardinality({j \in 1..Len(corpus[i]) : corpus[i][j] = t})

\* The number of tokens of the corpus.
TotalTokens ==
    Cardinality(UNION {{<<i, j>> : j \in 1..Len(corpus[i])} : i \in 1..N})

\* C1: building the index from an empty corpus returns an explicit
\* configuration error to the caller; it does not panic.
C1_EmptyCorpusReturnsError ==
    (pc # "start" /\ N = 0) => pc = "new_error"

\* C2: in the scenario, query ["cat"] ranks documents 0 and 2 before document
\* 1, and document 1 scores 0.
C2_CatDocsRankFirst ==
    (pc = "ranked" /\ query = <<"cat">>) =>
        /\ Pos(0) < Pos(1)
        /\ Pos(2) < Pos(1)
        /\ IsZero(ScoreIn(1))

\* C2, amended: in the scenario, query ["cat"] gives document 1 the score 0
\* and documents 0 and 2 the same negative score idf("cat") = ln(0.6), so
\* the ranking is document 1, then document 0, then document 2.
C2_CatDocsRankLast ==
    (pc = "ranked" /\ query = <<"cat">>) =>
        /\ Indices = <<1, 0, 2>>
        /\ IsZero(ScoreIn(1))
        /\ ScoreIn(0) = ScoreIn(2)
        /\ IsNegative(ScoreIn(0))
        /\ IsNegative(bm25.term_idf["cat"])

C2_Witness == pc = "ranked" /\ query = <<"cat">> /\ Len(ranks) = 3

\* C3: for every corpus of N >= 1 documents and every query, rank_documents
\* completes and returns N entries that hold every index 0..N-1 once.
C3_RankReturnsEveryIndexOnce ==
    (pc \in {"ranked", "rank_panicked"} /\ N >= 1) =>
        /\ pc = "ranked"
        /\ Len(ranks) = N
        /\ \A i \in 0..(N - 1) :
              Cardinality({k \in 1..Len(ranks) : ranks[k][1] = i}) = 1

\* C4: a query term whose count in a document is 0 contributes exactly 0 to
\* that document's score.
C4_AbsentTermContributesZero ==
    (Built /\ N >= 1) =>
        \A i \in 1..N : \A t \in QueryTerms :
            Occurrences(t, i) = 0 => IsZero(TermScore(bm25, t, i - 1))

\* C5: doc_lengths[i] is the token count of document i, and avg_doc_length
\* is the floor of the total token count over N.
C5_LengthsAndFloorAverage ==
    (Built /\ N >= 1) =>
        /\ DOMAIN bm25.doc_lengths = 1..N
        /\ \A i \in 1..N : bm25.doc_lengths[i] = Len(corpus[i])
        /\ bm25.doc_count = N
        /\ 0 <= TotalTokens - bm25.avg_doc_length * N
        /\ TotalTokens - bm25.avg_doc_length * N < N

C5_Witness ==
    Built /\ N = 2 /\ TotalTokens = 3 /\ bm25.avg_doc_length = 1

\* C6: rank_documents never changes the index or the corpus, and what it
\* returns for a query is what a freshly built index returns for it, however
\* many calls came before.
C6_RankLeavesIndexUnchanged ==
    /\ [](pc = "ranked" => ranks = rank_documents(new(corpus), query).v)
    /\ [][pc # "start" => (bm25' = bm25 /\ corpus' = corpus)]_vars

C6_Witness ==
    pc = "ranked" /\ query = <<"x">> /\ N = 2 /\ bm25.avg_doc_length = 1

\* C7: the returned sequence is sorted by non-increasing score, and each
\* entry's score is the query score of its document.
C7_SortedByScoreDescending ==
    pc = "ranked" =>
        /\ \A k \in 1..(Len(ranks) - 1) :
              partial_cmp(ranks[k][2], ranks[k + 1][2]) \in {"Greater", "Equal"}
        /\ \A k \in 1..Len(ranks) :
              ranks[k][2] = calculate_bm25_score(bm25, query, ranks[k][1])

C7_Witness ==
    /\ pc = "ranked"
    /\ Len(ranks) = 2
    /\ Indices = <<1, 0>>
    /\ partial_cmp(ranks[1][2], ranks[2][2]) = "Greater"

\* C8: term_idf has one entry for each token of the corpus and no other; its
\* value is ln((N - df + 0.5) / (df + 0.5)) for df the number of documents
\* that hold the token, and it is negative exactly when df > N / 2.
C8_IdfFromDocumentFrequency ==
    (Built /\ N >= 1) =>
        /\ DOMAIN bm25.term_idf = Tokens
        /\ \A t \in Tokens :
              /\ 1 <= DF(t) /\ DF(t) <= N
              /\ bm25.term_idf[t] = idf_of(N, DF(t))
              /\ IsNegative(bm25.term_idf[t]) <=> 2 * DF(t) > N

C8_Witness ==
    /\ Built
    /\ N = 2
    /\ Occurrences("a", 1) = 2
    /\ DF("a") = 2
    /\ DF("b") = 1
    /\ IsNegative(bm25.term_idf["a"])
    /\ IsZero(bm25.term_idf["b"])

\* C9: score(q1 ++ q2, d) = score(q1, d) + score(q2, d) for all queries.
C9_ScoreIsAdditive ==
    pc = "scored" => score_out[3] = f32_add(score_out[1], score_out[2])

\* C9, amended: the score is the left-to-right f32 sum of the contributions
\* of every occurrence, not deduplicated: a query extended by one term scores
\* the sum of its score and that term's contribution, so score(q1 ++ q2, d)
\* = score(q1, d) + score(q2, d) when q2 has at most one term (for a longer
\* q2 only up to rounding), and the empty query scores 0.0.
C9_ScoreAddsEachOccurrence ==
    pc = "scored" =>
        /\ score_args.q1 = <<>> => score_out[1] = F32_0_0
        /\ Len(score_args.q2) <= 1 =>
              score_out[3] = f32_add(score_out[1], score_out[2])
        /\ Len(score_args.q2) = 1 =>
              score_out[3] =
                  f32_add(score_out[1],
                          TermScore(bm25, score_args.q2[1], score_args.doc_index))

C9_Witness ==
    /\ pc = "scored"
    /\ score_args.q1 = <<"a">>
    /\ score_args.q2 = <<"a">>
    /\ corpus = << <<"a", "a", "b">> >>
    /\ IsNegative(score_out[1])
    /\ score_out[3] = f32_add(score_out[1], score_out[1])

\* C10: documents with equal scores appear in ascending index order, so the
\* empty query and a query of out-of-vocabulary terms return 0, 1, ..., N-1.
C10_TiesAscendingOovIdentity ==
    (pc \in {"ranked", "rank_panicked"} /\ N >= 1) =>
        /\ \A k \in 1..(Len(ranks) - 1) :
              ranks[k][2] = ranks[k + 1][2] => ranks[k][1] < ranks[k + 1][1]
        /\ Range(query) \cap Tokens = {} =>
              (pc = "ranked" /\ Indices = Identity(N))
====
